---- MODULE Spec2Model ----
(***************************************************************************)
(* Model of hw/xilinx_zynq.c: the device-tree driven ARM machines          *)
(* (arm-generic-fdt, arm-generic-fdt-7series, arm-generic-fdt-plnx).       *)
(*                                                                         *)
(* Units.  TLC integers are 32 bits wide, so:                              *)
(*  - sizes and offsets of the RAM container (machine->ram_size,           *)
(*    memory_max, ddr_low_size, ddr_high_size, the windows inside          *)
(*    mem_area) are counted in units of 256 MiB;                           *)
(*  - addresses of the system address space (get_system_memory()) are      *)
(*    counted in 4-byte words, so 0xfffffff0 is 1073741820.                *)
(* A ram_addr_t / uint64_t value is held as the integer congruent to it    *)
(* modulo 2^64 that lies in [-2^63, 2^63): a negative number n stands for  *)
(* the unsigned value 2^64 + n.  Subtraction is then plain subtraction and *)
(* the unsigned order is ULess below.                                      *)
(*                                                                         *)
(* A device-tree path is the sequence of its node names, a tree is the     *)
(* sequence of its node paths in document order (root left out) together   *)
(* with the set of <<path, property, value>> triples and the number of     *)
(* writes (property set, node added, node deleted) made to it so far.      *)
(***************************************************************************)
EXTENDS Integers, Sequences, FiniteSets, TLC

\* ------------------------------------------------------------ constants

\* #define ZYNQ7000_MPCORE_PERIPHBASE 0xF8F00000, in 4-byte words
ZYNQ7000_MPCORE_PERIPHBASE == 1044119552
\* #define SMP_BOOT_ADDR 0xfffffff0, in 4-byte words
SMP_BOOT_ADDR == 1073741820
\* #define SMP_BOOTREG_ADDR 0xfffffffc, in 4-byte words
SMP_BOOTREG_ADDR == 1073741823
\* memory_region_add_subregion(address_space_mem, 0xFFFC0000, ocm_ram), in words
OCM_BASE == 1073676288
\* memory_region_init_ram(ocm_ram, NULL, "zynq.ocm_ram", 256 << 10, ...), in words
OCM_SIZE == 65536
\* sysbus_mmio_map(busdev, 0, 0xe000e000), in words
PL353_MMIO0 == 939538432
\* sysbus_mmio_map(busdev, 2, 0xe1000000), in words
PL353_MMIO2 == 943718400
\* XLNX_ZYNQMP_MAX_LOW_RAM_SIZE (2 GiB), in units of 256 MiB
XLNX_ZYNQMP_MAX_LOW_RAM_SIZE == 8
\* XLNX_ZYNQMP_HIGH_RAM_START (0x800000000), in units of 256 MiB
XLNX_ZYNQMP_HIGH_RAM_START == 128
\* one 32-bit device-tree cell holds 2^32 bytes = 16 units of 256 MiB
CellUnits == 16
\* 256 MiB in 4-byte words
WordsPerUnit == 67108864

\* a NULL path (char *) and a NULL string value
NULL == <<>>
NoString == "(null)"

\* ------------------------------------------------------- the device tree

QspiPath == <<"amba", "spi@e000d000">>
FlashPath == <<"amba", "spi@e000d000", "flash@0">>
GicPath == <<"amba", "interrupt-controller@f8f01000">>
UsbPath == <<"amba", "usb@e0002000">>
GemPath == <<"amba", "ethernet@e000b000">>
GemMdioPath == <<"amba", "ethernet@e000b000", "mdio">>
BusMdioPath == <<"amba", "mdio@1">>
Cpu0Path == <<"cpus", "cpu@0">>
Cpu1Path == <<"cpus", "cpu@1">>

\* the part of a node name before its unit address ('@')
BaseName(name) ==
    CASE name = "memory@0" -> "memory"
      [] name = "interrupt-controller@f8f01000" -> "interrupt-controller"
      [] name = "spi@e000d000" -> "spi"
      [] name = "flash@0" -> "flash"
      [] name = "ps7-qspi-dummy@0" -> "ps7-qspi-dummy"
      [] name = "usb@e0002000" -> "usb"
      [] name = "ethernet@e000b000" -> "ethernet"
      [] name = "mdio@1" -> "mdio"
      [] name = "cpu@0" -> "cpu"
      [] name = "cpu@1" -> "cpu"
      [] name = "ddr@0" -> "ddr"
      [] name = "ddr@1" -> "ddr"
      [] name = "ddr@2" -> "ddr"
      [] OTHER -> name

NodeName(p) == p[Len(p)]

HasNode(t, p) == \E i \in 1..Len(t.nodes) : t.nodes[i] = p

IsPrefix(p, q) == Len(p) <= Len(q) /\ SubSeq(q, 1, Len(p)) = p

\* the values of property k of node p: empty when the property is absent
PropVals(t, p, k) == {x[3] : x \in {y \in t.props : y[1] = p /\ y[2] = k}}

HasProp(t, p, k) == PropVals(t, p, k) # {}

PropOf(t, p, k) == CHOOSE v \in PropVals(t, p, k) : TRUE

\* set_property(path, key, value): replaces the value when the key exists
SetProp(t, p, k, v) ==
    [t EXCEPT !.props = {y \in @ : ~(y[1] = p /\ y[2] = k)} \cup {<<p, k, v>>},
              !.writes = @ + 1]

\* qemu_fdt_getprop_cell(fdt, path, prop, 0, false, NULL): 0 when absent
GetPropCell(t, p, k) == IF HasProp(t, p, k) THEN PropOf(t, p, k) ELSE 0

\* qemu_fdt_getprop(fdt, path, "compatible", ...): NULL when absent
GetPropString(t, p, k) == IF HasProp(t, p, k) THEN PropOf(t, p, k) ELSE NoString

RECURSIVE FirstIndex(_, _, _)
\* the first index i >= from of the sequence s with Ok[i], 0 when there is none
FirstIndex(Ok, n, from) ==
    IF from > n THEN 0
    ELSE IF Ok[from] THEN from
    ELSE FirstIndex(Ok, n, from + 1)

\* find_first_matching(compatible): index of the first node, 0 = not found
NodeByCompatible(t, c) ==
    FirstIndex([i \in 1..Len(t.nodes) |-> <<t.nodes[i], "compatible", c>> \in t.props],
               Len(t.nodes), 1)

\* qemu_devtree_get_node_by_name: first node whose name before '@' is cmpname
NodeByName(t, cmpname) ==
    FirstIndex([i \in 1..Len(t.nodes) |-> BaseName(NodeName(t.nodes[i])) = cmpname],
               Len(t.nodes), 1)

\* fdt_path_offset: a path component without '@' also names a node with one
ResolvePath(t, p) ==
    FirstIndex([i \in 1..Len(t.nodes) |->
                   /\ Len(t.nodes[i]) = Len(p)
                   /\ \A j \in 1..Len(p) :
                        \/ t.nodes[i][j] = p[j]
                        \/ BaseName(t.nodes[i][j]) = p[j]],
               Len(t.nodes), 1)

\* qemu_devtree_get_children(fdt, path, 1): the children in document order
Children(t, p) ==
    SelectSeq(t.nodes, LAMBDA q : Len(q) = Len(p) + 1 /\ IsPrefix(p, q))

\* index of node p in the tree, 0 for the root (the empty path)
IndexOf(t, p) ==
    IF p = <<>> THEN 0
    ELSE FirstIndex([i \in 1..Len(t.nodes) |-> t.nodes[i] = p], Len(t.nodes), 1)

\* qemu_fdt_add_subnode: libfdt puts the new node first among its parent's
\* children; a path that exists already is an error (FDT_ERR_EXISTS)
AddSubnodeFails(t, p) ==
    \/ HasNode(t, p)
    \/ (Len(p) > 1 /\ ~HasNode(t, SubSeq(p, 1, Len(p) - 1)))

AddSubnode(t, p) ==
    LET at == IndexOf(t, SubSeq(p, 1, Len(p) - 1))
    IN  [t EXCEPT !.nodes = SubSeq(@, 1, at) \o <<p>> \o SubSeq(@, at + 1, Len(@)),
                  !.writes = @ + 1]

\* remove_node(path): the node, its subtree and their properties
DelNode(t, p) ==
    [nodes |-> SelectSeq(t.nodes, LAMBDA q : ~IsPrefix(p, q)),
     props |-> {y \in t.props : ~IsPrefix(p, y[1])},
     writes |-> t.writes + 1]

\* ------------------------------------------------------------ the Patcher

\* zynq7000_qspi_flash_node_clone(fdt): the tree it leaves, the name it
\* returns (NULL when nothing was cloned) and whether qemu_fdt_add_subnode
\* failed, which ends the process
zynq7000_qspi_flash_node_clone(t) ==
    LET ret == NodeByCompatible(t, "xlnx,zynq-qspi-1.0")
    IN  IF ret = 0 THEN [fdt |-> t, name |-> NULL, err |-> FALSE]
        ELSE
        LET qspi_node_path == t.nodes[ret]
            qspi_is_dual == GetPropCell(t, qspi_node_path, "is-dual")
            t1 == SetProp(t, qspi_node_path, "#bus-cells", <<1>>)
            qspi_new_node_path == Append(qspi_node_path, "ps7-qspi-dummy@0")
            child_flash == Children(t1, qspi_node_path)
        IN  IF Len(child_flash) = 0 THEN [fdt |-> t1, name |-> NULL, err |-> FALSE]
            ELSE
            LET compat_str == GetPropString(t1, child_flash[1], "compatible")
                t2 == SetProp(t1, child_flash[1], "reg", <<0, 0>>)
            IN  IF compat_str = NoString \/ qspi_is_dual # 1
                THEN [fdt |-> t2, name |-> NULL, err |-> FALSE]
                ELSE IF AddSubnodeFails(t2, qspi_new_node_path)
                THEN [fdt |-> t2, name |-> NULL, err |-> TRUE]
                ELSE
                LET t3 == AddSubnode(t2, qspi_new_node_path)
                    t4 == SetProp(t3, qspi_new_node_path, "compatible", compat_str)
                    t5 == SetProp(t4, qspi_new_node_path, "reg", <<0, 1>>)
                IN  [fdt |-> t5, name |-> qspi_new_node_path, err |-> FALSE]

\* a variant that writes the marker without looking for the controller
DisableGicInitUnguarded(t) ==
    SetProp(t, <<"amba">>, "disable-linux-gic-init", <<1>>)

\* arm_generic_fdt_init, "Ensure that an interrupt controller exists before
\* disabling it"
DisableGicInit(t) ==
    LET i == NodeByName(t, "interrupt-controller")
    IN  IF i = 0 THEN t
        ELSE SetProp(t, t.nodes[i], "disable-linux-gic-init", <<1>>)

RECURSIVE SetResetCbar(_, _)
\* arm_generic_fdt_init, the do/while over fdt_node_offset_by_compatible:
\* reset-cbar on every "arm,cortex-a9" node after index `from`
SetResetCbar(t, from) ==
    LET Ok == [i \in 1..Len(t.nodes) |->
                  <<t.nodes[i], "compatible", "arm,cortex-a9">> \in t.props]
        node_offset == FirstIndex(Ok, Len(t.nodes), from + 1)
    IN  IF node_offset = 0 THEN t
        ELSE SetResetCbar(SetProp(t, t.nodes[node_offset], "reset-cbar",
                                  <<ZYNQ7000_MPCORE_PERIPHBASE>>),
                          node_offset)

\* the 32-bit cell qemu_fdt_setprop_cells stores for a ram size
RamSizeCell(ram) == ram % CellUnits

\* arm_generic_fdt_init, "Find a memory node or add new one if needed":
\* the while loop adds /memory@0 until a node named memory is found
FindOrAddMemory(t, ram) ==
    IF NodeByName(t, "memory") # 0 THEN [fdt |-> t, err |-> FALSE]
    ELSE IF AddSubnodeFails(t, <<"memory@0">>) THEN [fdt |-> t, err |-> TRUE]
    ELSE [fdt |-> SetProp(AddSubnode(t, <<"memory@0">>), <<"memory@0">>, "reg",
                          <<0, RamSizeCell(ram)>>),
          err |-> FALSE]

\* arm_generic_fdt_init: the /memory node without a compatible string becomes
\* a "qemu:memory-region" with qemu,ram = 1.  A /memory path that resolves to
\* no node makes qemu_fdt_setprop_string fail, which ends the process
MemoryDefaults(t) ==
    LET i == ResolvePath(t, <<"memory">>)
    IN  IF i = 0 THEN [fdt |-> t, err |-> TRUE]
        ELSE IF HasProp(t, t.nodes[i], "compatible") THEN [fdt |-> t, err |-> FALSE]
        ELSE [fdt |-> SetProp(SetProp(t, t.nodes[i], "compatible", "qemu:memory-region"),
                              t.nodes[i], "qemu,ram", <<1>>),
              err |-> FALSE]

\* the whole patch phase of arm_generic_fdt_init (lines 461-500) as one
\* function of the tree: the quirks of the Zynq-7000 machines, then the
\* memory node
PatchPhase(t, zynq_7000, ram) ==
    LET c == IF zynq_7000 THEN zynq7000_qspi_flash_node_clone(t)
             ELSE [fdt |-> t, name |-> NULL, err |-> FALSE]
        g == IF zynq_7000 THEN SetResetCbar(DisableGicInit(c.fdt), 0) ELSE c.fdt
        m == FindOrAddMemory(g, ram)
        d == MemoryDefaults(m.fdt)
    IN  IF c.err THEN [fdt |-> c.fdt, name |-> NULL, err |-> TRUE]
        ELSE IF m.err THEN [fdt |-> m.fdt, name |-> c.name, err |-> TRUE]
        ELSE [fdt |-> d.fdt, name |-> c.name, err |-> d.err]

\* a variant that disables the controller instead of forcing host mode
zynq7000_usb_nuke_phy_disable(t) ==
    LET ret == NodeByCompatible(t, "xlnx,ps7-usb-1.00.a")
    IN  IF ret # 0 THEN SetProp(t, t.nodes[ret], "status", "disabled") ELSE t

\* zynq7000_usb_nuke_phy(fdt)
zynq7000_usb_nuke_phy(t) ==
    LET ret == NodeByCompatible(t, "xlnx,ps7-usb-1.00.a")
    IN  IF ret # 0 THEN SetProp(t, t.nodes[ret], "dr_mode", "host") ELSE t

\* ------------------------------------------------------- the address maps

\* whether address a lies below the end of the window at b of size s; a size
\* that stands for 2^64 + s (s < 0) ends above every address of the model
EndsAfter(b, s, a) == IF s < 0 THEN TRUE ELSE a < b + s

WindowsOverlap(b1, s1, b2, s2) ==
    /\ s1 # 0
    /\ s2 # 0
    /\ EndsAfter(b1, s1, b2)
    /\ EndsAfter(b2, s2, b1)

\* a variant of the mapper that accepts every window
AddSubregionNeverRejects(map, o, b, s) == FALSE

\* memory_region_add_subregion(container, base, region) of owner `o`: a window
\* that overlaps the window of another owner is rejected (OverlappingMapping)
\* and nothing is committed
AddSubregionRejects(map, o, b, s) ==
    \E w \in map : w.owner # o /\ WindowsOverlap(w.base, w.size, b, s)

AddSubregion(map, o, b, s) ==
    IF AddSubregionRejects(map, o, b, s) THEN map
    ELSE map \cup {[owner |-> o, base |-> b, size |-> s]}

\* memory_region_is_mapped(mr)
IsMapped(map, o) == \E w \in map : w.owner = o

\* the unsigned order of two 64-bit values held as signed representatives
ULess(a, b) ==
    IF (a < 0) = (b < 0) THEN a < b ELSE b < 0

\* --------------------------------------------------- secondary boot code

\* static uint32_t zynq_smpboot[]: each word as its four bytes, most
\* significant first: 0xe320f003 (wfi), 0xeafffffd (b <wfi>)
SmpbootInit == << <<227, 32, 240, 3>>, <<234, 255, 255, 253>> >>

Reverse4(w) == <<w[4], w[3], w[2], w[1]>>

\* ARM system emulation is little-endian (TARGET_WORDS_BIGENDIAN is not set)
TargetBigEndian == FALSE

\* tswap32: a byte swap when host and target byte orders differ
tswap32(w, host_big_endian) ==
    IF host_big_endian # TargetBigEndian THEN Reverse4(w) ELSE w

\* the bytes a uint32_t occupies in host memory, lowest address first
HostBytes(w, host_big_endian) == IF host_big_endian THEN w ELSE Reverse4(w)

\* the in-place loop of arm_write_secondary_boot over zynq_smpboot[]
SwapSmpboot(code, host_big_endian) ==
    [n \in 1..Len(code) |-> tswap32(code[n], host_big_endian)]

\* rom_add_blob_fixed("smpboot", zynq_smpboot, sizeof(zynq_smpboot), addr):
\* the host bytes of the array, at addr
SmpbootBlob(code, host_big_endian) ==
    [addr |-> SMP_BOOT_ADDR,
     words |-> Len(code),
     bytes |-> HostBytes(code[1], host_big_endian)
                 \o HostBytes(code[2], host_big_endian)]

\* ------------------------------------------------------ the loaded trees

Gem1Path == <<"amba", "ethernet@e000c000">>
Gem1MdioPath == <<"amba", "ethernet@e000c000", "mdio">>
MemoryPath == <<"memory@0">>
Ddr0Path == <<"ddr@0">>
Ddr1Path == <<"ddr@1">>

\* the described RAM of a tree: reg is <base-high base-low size> in cells of
\* 256 MiB units, container the phandle of the region it lies in
DdrNodes(ddr) ==
    CASE ddr = "none" -> <<>>
      [] ddr = "half" -> <<[path |-> Ddr0Path, container |-> 1, reg |-> <<0, 0, 2>>]>>
      [] ddr = "low" -> <<[path |-> Ddr0Path, container |-> 1, reg |-> <<0, 0, 8>>]>>
      [] ddr = "over" -> <<[path |-> Ddr0Path, container |-> 1, reg |-> <<0, 0, 10>>]>>
      [] ddr = "split" -> <<[path |-> Ddr0Path, container |-> 1, reg |-> <<0, 0, 2>>],
                            [path |-> Ddr1Path, container |-> 1, reg |-> <<0, 8, 4>>]>>
      [] ddr = "other" -> <<[path |-> Ddr0Path, container |-> 1, reg |-> <<0, 0, 2>>],
                            [path |-> Ddr1Path, container |-> 2, reg |-> <<0, 2, 2>>]>>
      [] ddr = "extra" -> <<[path |-> Ddr0Path, container |-> 0, reg |-> <<4, 2>>]>>
      [] ddr = "ocm" -> <<[path |-> Ddr0Path, container |-> 0, reg |-> <<12, 4>>]>>

\* the tree a configuration describes, as load_device_tree returns it
MakeTree(c) ==
    LET cpuCompat == IF c.cpus = "a9" THEN "arm,cortex-a9" ELSE "arm,cortex-a53"
        cpuN == IF c.cpus = "none" THEN <<>> ELSE << <<"cpus">>, Cpu0Path, Cpu1Path >>
        cpuP == IF c.cpus = "none" THEN {}
                ELSE {<<Cpu0Path, "compatible", cpuCompat>>,
                      <<Cpu1Path, "compatible", cpuCompat>>}
        gicN == IF c.gic THEN <<GicPath>> ELSE <<>>
        gicP == IF c.gic THEN {<<GicPath, "compatible", "arm,cortex-a9-gic">>} ELSE {}
        qspiN == CASE c.qspi = "none" -> <<>>
                   [] c.qspi = "dual_nochild" -> <<QspiPath>>
                   [] OTHER -> <<QspiPath, FlashPath>>
        qspiP == (IF c.qspi = "none" THEN {}
                  ELSE {<<QspiPath, "compatible", "xlnx,zynq-qspi-1.0">>})
                 \cup (IF c.qspi \in {"dual", "dual_nochild", "dual_nocompat"}
                       THEN {<<QspiPath, "is-dual", 1>>} ELSE {})
                 \cup (IF c.qspi \in {"single", "dual"}
                       THEN {<<FlashPath, "compatible", "n25q128">>} ELSE {})
                 \cup (IF c.qspi \in {"single", "dual", "dual_nocompat"}
                       THEN {<<FlashPath, "reg", <<0>>>>} ELSE {})
        usbN == IF c.usb THEN <<UsbPath>> ELSE <<>>
        usbP == IF c.usb THEN {<<UsbPath, "compatible", "xlnx,ps7-usb-1.00.a">>} ELSE {}
        ethN == CASE c.eth = "none" -> <<>>
                  [] c.eth = "two" -> <<GemPath, GemMdioPath, Gem1Path, Gem1MdioPath>>
                  [] OTHER -> <<GemPath, GemMdioPath>>
        ethP == CASE c.eth = "none" -> {}
                  [] c.eth = "gem" -> {<<GemPath, "compatible", "cdns,gem">>,
                                       <<GemMdioPath, "compatible", "mdio">>}
                  [] c.eth = "unknown" -> {<<GemPath, "compatible", "vendor,mac">>,
                                           <<GemMdioPath, "compatible", "mdio">>}
                  [] c.eth = "two" -> {<<GemPath, "compatible", "cdns,gem">>,
                                       <<GemMdioPath, "compatible", "mdio">>,
                                       <<Gem1Path, "compatible", "cdns,gem">>,
                                       <<Gem1MdioPath, "compatible", "mdio">>}
        memN == IF c.mem = "absent" THEN <<>> ELSE <<MemoryPath>>
        memP == (IF c.mem = "absent" THEN {}
                 ELSE {<<MemoryPath, "reg", <<0, 2>>>>, <<MemoryPath, "phandle", 1>>})
                \cup (IF c.mem = "typed"
                      THEN {<<MemoryPath, "compatible", "qemu:memory-region">>,
                            <<MemoryPath, "qemu,ram", <<1>>>>}
                      ELSE {})
        ddr == DdrNodes(c.ddr)
        ddrN == [i \in 1..Len(ddr) |-> ddr[i].path]
        ddrP == UNION {{<<ddr[i].path, "compatible", "qemu:memory-region">>,
                        <<ddr[i].path, "container", ddr[i].container>>,
                        <<ddr[i].path, "reg", ddr[i].reg>>} : i \in 1..Len(ddr)}
    IN  [nodes |-> cpuN \o << <<"amba">> >> \o gicN \o qspiN \o usbN \o ethN
                     \o memN \o ddrN,
         props |-> {<< <<"amba">>, "compatible", "simple-bus">>} \cup cpuP \cup gicP
                     \cup qspiP \cup usbP \cup ethP \cup memP \cup ddrP,
         writes |-> 0]

\* ------------------------------------------------- the Memory Reconciler

\* qemu_fdt_getprop_cell(fdt, path, "reg", i, 0, NULL): cell i, 0 when absent
RegCell(t, p, i) ==
    IF HasProp(t, p, "reg") /\ i + 1 <= Len(PropOf(t, p, "reg"))
    THEN PropOf(t, p, "reg")[i + 1] ELSE 0

\* reg_value of arm_generic_fdt_init: (cell 0 << 32) + cell 1 + cell 2
RegValue(t, p) == RegCell(t, p, 0) * CellUnits + RegCell(t, p, 1) + RegCell(t, p, 2)

\* qemu_fdt_get_phandle(fdt, node_path)
GetPhandle(t, p) == GetPropCell(t, p, "phandle")

RECURSIVE ScanMemoryMax(_, _, _, _)
\* the do/while of arm_generic_fdt_init over the "qemu:memory-region" nodes
\* after index `from`: memory_max over the top-level regions whose container
\* is the main memory node
ScanMemoryMax(t, from, main_path, max) ==
    LET Ok == [i \in 1..Len(t.nodes) |->
                  <<t.nodes[i], "compatible", "qemu:memory-region">> \in t.props]
        mem_node_offset == FirstIndex(Ok, Len(t.nodes), from + 1)
    IN  IF mem_node_offset = 0 THEN max
        ELSE
        LET mem_node_path == t.nodes[mem_node_offset]
            counted == /\ Len(mem_node_path) = 1
                       /\ GetPropCell(t, mem_node_path, "container")
                            = GetPhandle(t, main_path)
            reg_value == RegValue(t, mem_node_path)
        IN  ScanMemoryMax(t, mem_node_offset, main_path,
                          IF counted /\ ULess(max, reg_value) THEN reg_value ELSE max)

\* a variant that extends the RAM whatever the description's extent
NeedsMoreRamAlways(max, ram) == TRUE

\* whether arm_generic_fdt_init synthesizes RAM: memory_max < machine->ram_size
NeedsMoreRam(max, ram) == ULess(max, ram)

\* whether the high region is created: ram_size > XLNX_ZYNQMP_MAX_LOW_RAM_SIZE
SplitsHigh(ram) == ULess(XLNX_ZYNQMP_MAX_LOW_RAM_SIZE, ram)

\* a variant that gives the low region all of the deficit
DdrLowSizeAllDeficit(max, ram) == ram - max

\* ddr_low_size of arm_generic_fdt_init
DdrLowSize(max, ram) ==
    IF SplitsHigh(ram) THEN XLNX_ZYNQMP_MAX_LOW_RAM_SIZE - max ELSE ram - max

\* ddr_high_size of arm_generic_fdt_init
DdrHighSize(ram) == ram - XLNX_ZYNQMP_MAX_LOW_RAM_SIZE

\* ---------------------------------------------------------------- bounds

\* the largest machine->ram_size (-m) tried, in units of 256 MiB
MaxRam == 13
\* how often the loader may call write_secondary_boot in one process
MaxBootWrites == 2
\* the resumptions without progress that are counted
MaxStall == 3
\* the words of a device's MMIO region whose size is the device's own
MmioWords == 1

\* ----------------------------------------------------------------- state

VARIABLES
    machine_name,       \* MACHINE_GET_CLASS(machine)->name
    cfg,                \* the configuration of the loaded tree
    machine_ram_size,   \* machine->ram_size
    host_big_endian,    \* the byte order of the host the build runs on
    pc,                 \* where machine initialisation stands
    fdt,                \* the hardware description tree
    qspi_clone_spi_flash_node_name,
    node_path,          \* the path of the main memory node
    mem_offset,         \* the loop variable of the Zynq-7000 mapping loop
    task_pc,            \* Builder: each task's state
    cq,                 \* Builder: the queue of yielded tasks
    opaque,             \* Builder: <<path, instance>> pairs registered
    links,              \* <<parent instance, property, instance>> set by tasks
    yielded,            \* the tasks that ever yielded
    stalled,            \* consecutive resumptions that made no progress
    mem_objs,           \* the memory regions the Builder created
    sysmap,             \* windows of get_system_memory(), in words
    memmap,             \* windows inside mem_area, in units of 256 MiB
    memory_max, ddr_low_size, ddr_high_size,
    ram_regions,        \* the regions memory_region_init_ram made at lines 583, 593
    ram_size,           \* the global ram_size / the "memory" option "size"
    zynq_smpboot,       \* static uint32_t zynq_smpboot[]
    rom,                \* the blobs handed to rom_add_blob_fixed, in order
    binfo,              \* arm_generic_fdt_binfo
    clone_removals,     \* fdt_del_node calls made on the cloned node
    err                 \* the fatal error that ended the process, "" if none

vars == <<machine_name, cfg, machine_ram_size, host_big_endian, pc, fdt,
          qspi_clone_spi_flash_node_name, node_path, mem_offset, task_pc, cq,
          opaque, links, yielded, stalled, mem_objs, sysmap, memmap, memory_max,
          ddr_low_size, ddr_high_size, ram_regions, ram_size, zynq_smpboot, rom,
          binfo, clone_removals, err>>

inputVars == <<machine_name, cfg, machine_ram_size, host_big_endian>>
builderVars == <<task_pc, cq, opaque, links, yielded, stalled>>
reconVars == <<memory_max, ddr_low_size, ddr_high_size, ram_regions, ram_size>>
bootVars == <<zynq_smpboot, rom, binfo>>

\* static struct arm_boot_info arm_generic_fdt_binfo = {}
NoBootInfo ==
    [ram_size |-> 0, nb_cpus |-> 0, write_secondary_boot |-> FALSE,
     smp_loader_start |-> 0, smp_bootreg_addr |-> 0, loader_start |-> 0,
     secure_boot |-> FALSE]

\* the process is at step l and no fatal error has ended it
At(l) == pc = l /\ err = ""

\* arm_generic_fdt_init: zynq_7000 is set for the 7series machine and for
\* the deprecated plnx machine
Zynq7000(name) ==
    name = "arm-generic-fdt-7series" \/ name = "arm-generic-fdt-plnx"

\* trees of the Zynq-7000 machines: every combination of the quirk targets
TreeVariety ==
    [cpus : {"none", "a9"}, gic : BOOLEAN,
     qspi : {"none", "single", "dual_nochild", "dual_nocompat", "dual"},
     usb : BOOLEAN, eth : {"none", "gem"}, mem : {"absent", "bare", "typed"},
     ddr : {"none"}]

\* trees of the Zynq-7000 machines: the MDIO nodes and the late-mapped RAM
BuilderVariety ==
    [cpus : {"a9"}, gic : {TRUE}, qspi : {"dual"}, usb : {TRUE},
     eth : {"gem", "unknown", "two"}, mem : {"typed"},
     ddr : {"none", "extra", "ocm"}]

\* trees of the generic machine: a main memory node and the described RAM
GenericVariety ==
    [cpus : {"a53"}, gic : {TRUE}, qspi : {"none", "dual"}, usb : {FALSE},
     eth : {"none"}, mem : {"bare", "typed"},
     ddr : {"none", "half", "low", "over", "split", "other"}]

InitInputs ==
    \/ /\ machine_name \in {"arm-generic-fdt-7series", "arm-generic-fdt-plnx"}
       /\ cfg \in TreeVariety \cup BuilderVariety
       /\ machine_ram_size \in {2, 4}
    \/ /\ machine_name = "arm-generic-fdt"
       /\ cfg \in GenericVariety
       /\ machine_ram_size \in 1..MaxRam

Init ==
    /\ InitInputs
    /\ host_big_endian \in BOOLEAN
    /\ pc = "init"
    /\ fdt = MakeTree(cfg)
    /\ qspi_clone_spi_flash_node_name = NULL
    /\ node_path = NULL
    /\ mem_offset = 0
    /\ task_pc = <<>>
    /\ cq = <<>>
    /\ opaque = {}
    /\ links = {}
    /\ yielded = {}
    /\ stalled = 0
    /\ mem_objs = {}
    /\ sysmap = {}
    /\ memmap = {}
    /\ memory_max = 0
    /\ ddr_low_size = 0
    /\ ddr_high_size = 0
    /\ ram_regions = {}
    /\ ram_size = machine_ram_size
    /\ zynq_smpboot = SmpbootInit
    /\ rom = <<>>
    /\ binfo = NoBootInfo
    /\ clone_removals = 0
    /\ err = ""

\* ------------------------------------------------ arm_generic_fdt_7000_init

\* the start of the machine's init function: on the Zynq-7000 machines the
\* OCM RAM and the pl35x windows are mapped and the MDIO callback is bound
\* before arm_generic_fdt_init runs
MachineInit ==
    /\ At("init")
    /\ IF Zynq7000(machine_name)
       THEN LET m1 == AddSubregion(sysmap, <<"zynq.ocm_ram">>, OCM_BASE, OCM_SIZE)
                m2 == AddSubregion(m1, <<"pl353">>, PL353_MMIO0, MmioWords)
                m3 == AddSubregion(m2, <<"pl353">>, PL353_MMIO2, MmioWords)
            IN  sysmap' = m3
       ELSE sysmap' = sysmap
    /\ pc' = "patch"
    /\ UNCHANGED <<inputVars, fdt, qspi_clone_spi_flash_node_name, node_path,
                   mem_offset, builderVars, mem_objs, memmap, reconVars, bootVars,
                   clone_removals, err>>

\* arm_generic_fdt_init, lines 461-500: the patch phase
PatchTree ==
    /\ At("patch")
    /\ LET r == PatchPhase(fdt, Zynq7000(machine_name), machine_ram_size)
       IN  /\ fdt' = r.fdt
           /\ qspi_clone_spi_flash_node_name' = r.name
           /\ err' = IF r.err THEN "DeviceTree" ELSE err
           /\ pc' = IF r.err THEN pc ELSE "create_machine"
           /\ node_path' = IF r.err THEN node_path
                           ELSE r.fdt.nodes[NodeByName(r.fdt, "memory")]
    /\ UNCHANGED <<inputVars, mem_offset, builderVars, mem_objs, sysmap, memmap,
                   reconVars, bootVars, clone_removals>>

\* ---------------------------------------------------- the Topology Builder

NodesCompatible(t, c) ==
    SelectSeq(t.nodes, LAMBDA q : <<q, "compatible", c>> \in t.props)

SeqRange(q) == {q[i] : i \in 1..Len(q)}

\* the nodes that become tasks: a node with a device constructor
\* ("cdns,gem") and, once zynq7000_mdio_phy_connect is bound to "mdio" by
\* arm_generic_fdt_7000_init, every "mdio" node
TaskNodes(t, zynq_7000) ==
    SeqRange(NodesCompatible(t, "cdns,gem"))
      \cup (IF zynq_7000 THEN SeqRange(NodesCompatible(t, "mdio")) ELSE {})

IsMdioTask(t, p) == <<p, "compatible", "mdio">> \in t.props

\* the instance a device task registers
DevHandle(p) == IF p = GemPath THEN "gem0" ELSE "gem1"

\* dev = qdev_create(NULL, "mdio"): the one object handed to every callback
MdioOpaque == "mdio"

\* fdt_init_set_opaque / fdt_init_has_opaque / fdt_init_get_opaque
SetOpaque(o, p, h) == {x \in o : x[1] # p} \cup {<<p, h>>}
HasOpaque(o, p) == \E x \in o : x[1] = p
GetOpaque(o, p) == IF HasOpaque(o, p) THEN (CHOOSE x \in o : x[1] = p)[2] ELSE NoString

\* qemu_devtree_getparent
ParentPath(p) == SubSeq(p, 1, Len(p) - 1)

\* the memory region the Builder creates for a "qemu:memory-region" node:
\* a reg of two cells is <base size>, of three <base-high base-low size>
RegionOf(t, p) ==
    LET r == PropOf(t, p, "reg")
    IN  [path |-> p,
         addr |-> IF Len(r) = 3 THEN r[1] * CellUnits + r[2] ELSE r[1],
         size |-> IF Len(r) = 3 THEN r[3] ELSE r[2],
         container |-> GetPropCell(t, p, "container")]

RegionObjects(t) ==
    {RegionOf(t, p) : p \in SeqRange(NodesCompatible(t, "qemu:memory-region"))}

RECURSIVE MapRegions(_, _, _)
\* add_subregion for each region of the sequence, base and size times `scale`;
\* the first rejected request ends the run
MapRegions(map, rs, scale) ==
    IF rs = <<>> THEN [map |-> map, err |-> FALSE]
    ELSE IF AddSubregionRejects(map, rs[1].path, rs[1].addr * scale, rs[1].size * scale)
    THEN [map |-> map, err |-> TRUE]
    ELSE MapRegions(AddSubregion(map, rs[1].path, rs[1].addr * scale,
                                 rs[1].size * scale),
                    Tail(rs), scale)

\* the regions of the tree in document order, as the Builder meets them
RegionSeq(t) ==
    LET ns == NodesCompatible(t, "qemu:memory-region")
    IN  [i \in 1..Len(ns) |-> RegionOf(t, ns[i])]

\* fdt_generic_create_machine begins: one task per matching node, one memory
\* region per "qemu:memory-region" node.  A region whose container is the
\* main memory node is mapped inside it; a region without container may or
\* may not be mapped into the system memory by the Builder
BuilderBegin ==
    /\ At("create_machine")
    /\ task_pc' = [p \in TaskNodes(fdt, Zynq7000(machine_name)) |-> "unstarted"]
    /\ mem_objs' = RegionObjects(fdt)
    /\ \E early \in BOOLEAN :
         LET all == RegionSeq(fdt)
             inside == SelectSeq(all, LAMBDA r : r.container # 0
                                   /\ r.container = GetPhandle(fdt, node_path))
             free == SelectSeq(all, LAMBDA r : r.container = 0 /\ r.path # node_path
                                   /\ early)
             mm == MapRegions(memmap, inside, 1)
             sm == MapRegions(sysmap, free, WordsPerUnit)
         IN  /\ memmap' = mm.map
             /\ sysmap' = sm.map
             /\ err' = IF mm.err \/ sm.err THEN "OverlappingMapping" ELSE err
             /\ pc' = IF mm.err \/ sm.err THEN pc ELSE "builder"
    /\ UNCHANGED <<inputVars, fdt, qspi_clone_spi_flash_node_name, node_path,
                   mem_offset, cq, opaque, links, yielded, stalled, reconVars,
                   bootVars, clone_removals>>

\* a device task (the constructor of a "cdns,gem" node) starts: it registers
\* its instance, or first yields on a dependency of its own
StartDevTask(p) ==
    /\ At("builder")
    /\ p \in DOMAIN task_pc
    /\ task_pc[p] = "unstarted"
    /\ ~IsMdioTask(fdt, p)
    /\ \E defer \in BOOLEAN :
         IF defer
         THEN /\ task_pc' = [task_pc EXCEPT ![p] = "waiting"]
              /\ cq' = Append(cq, p)
              /\ yielded' = yielded \cup {p}
              /\ opaque' = opaque
         ELSE /\ task_pc' = [task_pc EXCEPT ![p] = "done"]
              /\ opaque' = SetOpaque(opaque, p, DevHandle(p))
              /\ UNCHANGED <<cq, yielded>>
    /\ stalled' = 0
    /\ UNCHANGED <<inputVars, pc, fdt, qspi_clone_spi_flash_node_name, node_path,
                   mem_offset, links, mem_objs, sysmap, memmap, reconVars, bootVars,
                   clone_removals, err>>

\* a variant without the wait loop
MdioParentReadyNoWait(o, parent_node_path) == TRUE

\* zynq7000_mdio_phy_connect: the condition that ends the wait loop
MdioParentReady(o, parent_node_path) == HasOpaque(o, parent_node_path)

\* zynq7000_mdio_phy_connect after the wait loop: the parent is read and the
\* MDIO object becomes its "mdio_child" and its "mdio" link
MdioLink(o, l, parent_node_path) ==
    LET parent == GetOpaque(o, parent_node_path)
    IN  l \cup {<<parent, "mdio_child", MdioOpaque>>, <<parent, "mdio", MdioOpaque>>}

\* zynq7000_mdio_phy_connect(node_path, fdti, Opaque) is called: it registers
\* the MDIO object under its node, then links it to the parent's instance or
\* yields in the wait loop
StartMdioTask(p) ==
    /\ At("builder")
    /\ p \in DOMAIN task_pc
    /\ task_pc[p] = "unstarted"
    /\ IsMdioTask(fdt, p)
    /\ LET o1 == SetOpaque(opaque, p, MdioOpaque)
       IN  /\ opaque' = o1
           /\ IF MdioParentReady(o1, ParentPath(p))
              THEN /\ links' = MdioLink(o1, links, ParentPath(p))
                   /\ task_pc' = [task_pc EXCEPT ![p] = "done"]
                   /\ UNCHANGED <<cq, yielded>>
              ELSE /\ task_pc' = [task_pc EXCEPT ![p] = "waiting"]
                   /\ cq' = Append(cq, p)
                   /\ yielded' = yielded \cup {p}
                   /\ links' = links
    /\ stalled' = 0
    /\ UNCHANGED <<inputVars, pc, fdt, qspi_clone_spi_flash_node_name, node_path,
                   mem_offset, mem_objs, sysmap, memmap, reconVars, bootVars,
                   clone_removals, err>>

AllStarted == \A p \in DOMAIN task_pc : task_pc[p] # "unstarted"

\* the scheduler resumes the task at the head of the queue once the tree
\* walk has started every task: a device task registers its instance
ResumeDevTask ==
    /\ At("builder")
    /\ AllStarted
    /\ cq # <<>>
    /\ ~IsMdioTask(fdt, Head(cq))
    /\ task_pc' = [task_pc EXCEPT ![Head(cq)] = "done"]
    /\ opaque' = SetOpaque(opaque, Head(cq), DevHandle(Head(cq)))
    /\ cq' = Tail(cq)
    /\ stalled' = 0
    /\ UNCHANGED <<inputVars, pc, fdt, qspi_clone_spi_flash_node_name, node_path,
                   mem_offset, links, yielded, mem_objs, sysmap, memmap, reconVars,
                   bootVars, clone_removals, err>>

\* the scheduler resumes a task inside the wait loop of
\* zynq7000_mdio_phy_connect: it tests the parent again and links or yields
ResumeMdioTask ==
    /\ At("builder")
    /\ AllStarted
    /\ cq # <<>>
    /\ IsMdioTask(fdt, Head(cq))
    /\ IF MdioParentReady(opaque, ParentPath(Head(cq)))
       THEN /\ links' = MdioLink(opaque, links, ParentPath(Head(cq)))
            /\ task_pc' = [task_pc EXCEPT ![Head(cq)] = "done"]
            /\ cq' = Tail(cq)
            /\ stalled' = 0
       ELSE /\ cq' = Append(Tail(cq), Head(cq))
            /\ stalled' = IF stalled < MaxStall THEN stalled + 1 ELSE stalled
            /\ UNCHANGED <<links, task_pc>>
    /\ UNCHANGED <<inputVars, pc, fdt, qspi_clone_spi_flash_node_name, node_path,
                   mem_offset, opaque, yielded, mem_objs, sysmap, memmap, reconVars,
                   bootVars, clone_removals, err>>

\* fdt_generic_create_machine returns: the queue is empty
BuilderEnd ==
    /\ At("builder")
    /\ AllStarted
    /\ cq = <<>>
    /\ pc' = IF Zynq7000(machine_name) THEN "map_late" ELSE "reconcile"
    /\ UNCHANGED <<inputVars, fdt, qspi_clone_spi_flash_node_name, node_path,
                   mem_offset, builderVars, mem_objs, sysmap, memmap, reconVars,
                   bootVars, clone_removals, err>>

\* ------------------------------------- arm_generic_fdt_init after the Builder

\* one turn of the do/while of lines 509-525 (Zynq-7000 machines): the next
\* "qemu:memory-region" node; its region is mapped into the system memory at
\* its "addr" unless it is mapped already
MapLateStep ==
    /\ At("map_late")
    /\ LET Ok == [i \in 1..Len(fdt.nodes) |->
                     <<fdt.nodes[i], "compatible", "qemu:memory-region">> \in fdt.props]
           next == FirstIndex(Ok, Len(fdt.nodes), mem_offset + 1)
       IN  IF next = 0
           THEN /\ pc' = "binfo"
                /\ mem_offset' = 0
                /\ UNCHANGED <<sysmap, err>>
           ELSE LET mem_area == RegionOf(fdt, fdt.nodes[next])
                    start_addr == mem_area.addr * WordsPerUnit
                    size == mem_area.size * WordsPerUnit
                IN  /\ mem_offset' = next
                    /\ IF IsMapped(sysmap, mem_area.path)
                       THEN UNCHANGED <<sysmap, err, pc>>
                       ELSE IF AddSubregionRejects(sysmap, mem_area.path, start_addr, size)
                       THEN /\ err' = "OverlappingMapping"
                            /\ pc' = pc
                            /\ sysmap' = sysmap
                       ELSE /\ sysmap' = AddSubregion(sysmap, mem_area.path,
                                                      start_addr, size)
                            /\ UNCHANGED <<err, pc>>
    /\ UNCHANGED <<inputVars, fdt, qspi_clone_spi_flash_node_name, node_path,
                   builderVars, mem_objs, memmap, reconVars, bootVars,
                   clone_removals>>

\* lines 530-604 (generic machine) up to the first mapping: memory_max is
\* scanned; with memory_max < machine->ram_size the sizes of the regions to
\* add are computed, otherwise the described amount becomes the ram size
ReconcileDecide ==
    /\ At("reconcile")
    /\ LET max == ScanMemoryMax(fdt, 0, node_path, 0)
       IN  /\ memory_max' = max
           /\ IF NeedsMoreRam(max, machine_ram_size)
              THEN /\ ddr_low_size' = DdrLowSize(max, machine_ram_size)
                   /\ ddr_high_size' = IF SplitsHigh(machine_ram_size)
                                       THEN DdrHighSize(machine_ram_size)
                                       ELSE ddr_high_size
                   /\ pc' = IF SplitsHigh(machine_ram_size) THEN "map_high"
                            ELSE "map_low"
                   /\ ram_size' = ram_size
              ELSE /\ ram_size' = max
                   /\ pc' = "binfo"
                   /\ UNCHANGED <<ddr_low_size, ddr_high_size>>
    /\ UNCHANGED <<inputVars, fdt, qspi_clone_spi_flash_node_name, node_path,
                   mem_offset, builderVars, mem_objs, sysmap, memmap, ram_regions,
                   bootVars, clone_removals, err>>

\* lines 583-587: "ddr-ram-high" is created and added to mem_area at
\* XLNX_ZYNQMP_HIGH_RAM_START
MapHigh ==
    /\ At("map_high")
    /\ ram_regions' = ram_regions \cup {[name |-> "ddr-ram-high",
                                         size |-> ddr_high_size]}
    /\ IF AddSubregionRejects(memmap, <<"ddr-ram-high">>, XLNX_ZYNQMP_HIGH_RAM_START,
                              ddr_high_size)
       THEN /\ err' = "OverlappingMapping"
            /\ pc' = pc
            /\ memmap' = memmap
       ELSE /\ memmap' = AddSubregion(memmap, <<"ddr-ram-high">>,
                                      XLNX_ZYNQMP_HIGH_RAM_START, ddr_high_size)
            /\ pc' = "map_low"
            /\ err' = err
    /\ UNCHANGED <<inputVars, fdt, qspi_clone_spi_flash_node_name, node_path,
                   mem_offset, builderVars, mem_objs, sysmap, memory_max,
                   ddr_low_size, ddr_high_size, ram_size, bootVars, clone_removals>>

\* a variant that creates the low region whatever its size
LowRegionWantedAlways(size) == TRUE

\* line 592: if (ddr_low_size)
LowRegionWanted(size) == size # 0

\* lines 592-596: "ddr-ram-low" is created and added to mem_area at
\* memory_max when ddr_low_size is not zero
MapLow ==
    /\ At("map_low")
    /\ ram_regions' = IF LowRegionWanted(ddr_low_size)
                      THEN ram_regions \cup {[name |-> "ddr-ram-low",
                                              size |-> ddr_low_size]}
                      ELSE ram_regions
    /\ IF ~LowRegionWanted(ddr_low_size)
       THEN /\ pc' = "binfo"
            /\ UNCHANGED <<memmap, err>>
       ELSE IF AddSubregionRejects(memmap, <<"ddr-ram-low">>, memory_max, ddr_low_size)
       THEN /\ err' = "OverlappingMapping"
            /\ pc' = pc
            /\ memmap' = memmap
       ELSE /\ memmap' = AddSubregion(memmap, <<"ddr-ram-low">>, memory_max,
                                      ddr_low_size)
            /\ pc' = "binfo"
            /\ err' = err
    /\ UNCHANGED <<inputVars, fdt, qspi_clone_spi_flash_node_name, node_path,
                   mem_offset, builderVars, mem_objs, sysmap, memory_max,
                   ddr_low_size, ddr_high_size, ram_size, bootVars, clone_removals>>

\* the main memory region, read at lines 505-507
MainRegion == CHOOSE r \in mem_objs : r.path = node_path

\* fdt_generic_num_cpus: the CPU nodes the Builder instantiated
NumCpus(t) ==
    Len(NodesCompatible(t, "arm,cortex-a9")) + Len(NodesCompatible(t, "arm,cortex-a53"))

\* lines 607-621: the instance table is destroyed and the boot descriptor
\* is filled in
FillBootInfo ==
    /\ At("binfo")
    /\ opaque' = {}
    /\ binfo' = [ram_size |-> MainRegion.size,
                 nb_cpus |-> NumCpus(fdt),
                 write_secondary_boot |-> TRUE,
                 smp_loader_start |-> SMP_BOOT_ADDR,
                 smp_bootreg_addr |-> SMP_BOOTREG_ADDR,
                 loader_start |-> MainRegion.addr,
                 secure_boot |-> TRUE]
    /\ pc' = "cleanup"
    /\ UNCHANGED <<inputVars, fdt, qspi_clone_spi_flash_node_name, node_path,
                   mem_offset, task_pc, cq, links, yielded, stalled, mem_objs,
                   sysmap, memmap, reconVars, zynq_smpboot, rom, clone_removals, err>>

\* a variant that keeps the cloned node
RemoveClonedNodeKeep(t, name) == t

\* lines 623-628, "Remove cloned DTB node", as a function of the tree
RemoveClonedNode(t, name) == IF name # NULL THEN DelNode(t, name) ELSE t

RemoveClone ==
    /\ At("cleanup")
    /\ fdt' = RemoveClonedNode(fdt, qspi_clone_spi_flash_node_name)
    /\ clone_removals' = IF qspi_clone_spi_flash_node_name # NULL
                         THEN clone_removals + 1 ELSE clone_removals
    /\ pc' = "usb"
    /\ UNCHANGED <<inputVars, qspi_clone_spi_flash_node_name, node_path, mem_offset,
                   builderVars, mem_objs, sysmap, memmap, reconVars, bootVars, err>>

\* lines 630-632 as a function of the tree
NukeUsbPhy(t, zynq_7000) == IF zynq_7000 THEN zynq7000_usb_nuke_phy(t) ELSE t

UsbNukePhy ==
    /\ At("usb")
    /\ fdt' = NukeUsbPhy(fdt, Zynq7000(machine_name))
    /\ pc' = "load_kernel"
    /\ UNCHANGED <<inputVars, qspi_clone_spi_flash_node_name, node_path, mem_offset,
                   builderVars, mem_objs, sysmap, memmap, reconVars, bootVars,
                   clone_removals, err>>

\* arm_write_secondary_boot(cpu, info), called by the loader through
\* binfo.write_secondary_boot: the static array is swapped in place, then
\* handed to rom_add_blob_fixed
arm_write_secondary_boot ==
    /\ At("load_kernel")
    /\ binfo.write_secondary_boot
    /\ Len(rom) < MaxBootWrites
    /\ LET swapped == SwapSmpboot(zynq_smpboot, host_big_endian)
       IN  /\ zynq_smpboot' = swapped
           /\ rom' = Append(rom, SmpbootBlob(swapped, host_big_endian))
    /\ UNCHANGED <<inputVars, pc, fdt, qspi_clone_spi_flash_node_name, node_path,
                   mem_offset, builderVars, mem_objs, sysmap, memmap, reconVars,
                   binfo, clone_removals, err>>

\* lines 634-638: arm_load_kernel has returned, or there is no kernel
LoadKernelDone ==
    /\ At("load_kernel")
    /\ pc' = IF Zynq7000(machine_name) THEN "scu" ELSE "done"
    /\ UNCHANGED <<inputVars, fdt, qspi_clone_spi_flash_node_name, node_path,
                   mem_offset, builderVars, mem_objs, sysmap, memmap, reconVars,
                   bootVars, clone_removals, err>>

\* arm_generic_fdt_7000_init, lines 682-686: the SCU is mapped
ScuInit ==
    /\ At("scu")
    /\ IF AddSubregionRejects(sysmap, <<"a9-scu">>, ZYNQ7000_MPCORE_PERIPHBASE, MmioWords)
       THEN /\ err' = "OverlappingMapping"
            /\ pc' = pc
            /\ sysmap' = sysmap
       ELSE /\ sysmap' = AddSubregion(sysmap, <<"a9-scu">>,
                                      ZYNQ7000_MPCORE_PERIPHBASE, MmioWords)
            /\ pc' = "done"
            /\ err' = err
    /\ UNCHANGED <<inputVars, fdt, qspi_clone_spi_flash_node_name, node_path,
                   mem_offset, builderVars, mem_objs, memmap, reconVars, bootVars,
                   clone_removals>>

Next ==
    \/ MachineInit
    \/ PatchTree
    \/ BuilderBegin
    \/ \E p \in DOMAIN task_pc : StartDevTask(p)
    \/ \E p \in DOMAIN task_pc : StartMdioTask(p)
    \/ ResumeDevTask
    \/ ResumeMdioTask
    \/ BuilderEnd
    \/ MapLateStep
    \/ ReconcileDecide
    \/ MapHigh
    \/ MapLow
    \/ FillBootInfo
    \/ RemoveClone
    \/ UsbNukePhy
    \/ arm_write_secondary_boot
    \/ LoadKernelDone
    \/ ScuInit

Spec == Init /\ [][Next]_vars
\* ------------------------------------------------------------ properties

Generic == machine_name = "arm-generic-fdt"

\* the steps of arm_generic_fdt_init after both RAM regions were dealt with
AfterReconcile == {"binfo", "cleanup", "usb", "load_kernel", "scu", "done"}

LowWindows == {w \in memmap : w.owner = <<"ddr-ram-low">>}
HighWindows == {w \in memmap : w.owner = <<"ddr-ram-high">>}

Min(a, b) == IF a < b THEN a ELSE b

\* C1: with R > P and P < C, the shortfall D = R - P is split into a low
\* region of size min(D, C - P) placed at P, directly after the described
\* memory, and a high region of size D - low at the fixed high base, which
\* exists only when that size is not zero; C = 2 GiB, P = 512 MiB, R = 3 GiB
\* gives low = 1536 MiB and high = 1 GiB; P = 0, R = 512 MiB gives
\* low = 512 MiB and no high region.
C1_LowHighSplit ==
    (/\ Generic
     /\ pc \in AfterReconcile
     /\ machine_ram_size > memory_max
     /\ memory_max < XLNX_ZYNQMP_MAX_LOW_RAM_SIZE)
    => LET D == machine_ram_size - memory_max
           low == Min(D, XLNX_ZYNQMP_MAX_LOW_RAM_SIZE - memory_max)
           high == D - low
       IN  /\ err = ""
           /\ LowWindows = {[owner |-> <<"ddr-ram-low">>, base |-> memory_max,
                             size |-> low]}
           /\ HighWindows = IF high = 0 THEN {}
                            ELSE {[owner |-> <<"ddr-ram-high">>,
                                   base |-> XLNX_ZYNQMP_HIGH_RAM_START,
                                   size |-> high]}
           /\ (memory_max = 2 /\ machine_ram_size = 12
                 => low = 6 /\ high = 4 /\ ddr_low_size = 6 /\ ddr_high_size = 4)
           /\ (memory_max = 0 /\ machine_ram_size = 2
                 => low = 2 /\ high = 0 /\ ddr_low_size = 2)

C1_Witness ==
    /\ Generic
    /\ pc = "done"
    /\ memory_max = 2
    /\ machine_ram_size = 12
    /\ \E w \in memmap : w.owner = <<"ddr-ram-low">> /\ w.size = 6
    /\ \E w \in memmap : w.owner = <<"ddr-ram-high">> /\ w.size = 4

\* C2: with R > P and P >= C (P > C included), once the high region has been
\* dealt with the whole shortfall D = R - P is one high region of size
\* exactly D and there is no low region.
C2_AllHigh ==
    (/\ Generic
     /\ pc \in {"map_low"} \cup AfterReconcile
     /\ machine_ram_size > memory_max
     /\ memory_max >= XLNX_ZYNQMP_MAX_LOW_RAM_SIZE)
    => /\ HighWindows = {[owner |-> <<"ddr-ram-high">>,
                          base |-> XLNX_ZYNQMP_HIGH_RAM_START,
                          size |-> machine_ram_size - memory_max]}
       /\ LowWindows = {}
       /\ (pc = "map_low" => ddr_low_size = 0)

\* C3: with R <= P nothing is synthesized or mapped, the effective size and
\* the globally configured memory size become P, and this is no error;
\* P = 512 MiB, R = 256 MiB gives 512 MiB; P = 2 GiB, R = 1 GiB gives 2 GiB.
C3_DescriptionWins ==
    (/\ Generic
     /\ pc \in AfterReconcile
     /\ machine_ram_size <= memory_max)
    => /\ ram_size = memory_max
       /\ LowWindows = {}
       /\ HighWindows = {}
       /\ \A w \in memmap : \E r \in mem_objs : r.path = w.owner
       /\ err = ""
       /\ (memory_max = 2 /\ machine_ram_size = 1 => ram_size = 2)
       /\ (memory_max = 8 /\ machine_ram_size = 4 => ram_size = 8)

C3_Witness ==
    /\ Generic
    /\ pc = "done"
    /\ memory_max = 8
    /\ machine_ram_size = 4
    /\ ram_size = 8
    /\ LowWindows = {}
    /\ HighWindows = {}
\* the Builder pass has begun: fdt_generic_create_machine was entered
BuilderBegun == pc \notin {"init", "patch", "create_machine"}

\* the step removes the cloned helper node and nothing else
StepRemovesClone ==
    /\ qspi_clone_spi_flash_node_name # NULL
    /\ fdt'.nodes = SelectSeq(fdt.nodes,
                        LAMBDA q : ~IsPrefix(qspi_clone_spi_flash_node_name, q))
    /\ fdt'.props = {y \in fdt.props :
                        ~IsPrefix(qspi_clone_spi_flash_node_name, y[1])}

\* the step sets dr_mode = "host" on a USB node and nothing else
StepSetsDrMode ==
    \E i \in 1..Len(fdt.nodes) :
       /\ <<fdt.nodes[i], "compatible", "xlnx,ps7-usb-1.00.a">> \in fdt.props
       /\ fdt'.nodes = fdt.nodes
       /\ fdt'.props = {y \in fdt.props : ~(y[1] = fdt.nodes[i] /\ y[2] = "dr_mode")}
                         \cup {<<fdt.nodes[i], "dr_mode", "host">>}

ClonePath == Append(QspiPath, "ps7-qspi-dummy@0")

\* C5: the clone ps7-qspi-dummy@0 is created exactly when the tree of a
\* Zynq-7000 machine has a dual QSPI controller whose first child has a
\* compatible string; it is in the tree and not yet removed until the
\* Builder pass is over, it is removed exactly once in the cleanup, no
\* removal is made when nothing was cloned, and afterwards the tree holds
\* no clone.
C5_CloneRemovedOnce ==
    LET created == qspi_clone_spi_flash_node_name # NULL
        patched == pc # "init" /\ ~(pc = "patch" /\ err = "")
        cleaned == pc \in {"usb", "load_kernel", "scu", "done"}
    IN  /\ ~patched => ~created /\ clone_removals = 0
        /\ patched /\ err # "DeviceTree"
             => (created <=> (~Generic /\ cfg.qspi = "dual"))
        /\ created => qspi_clone_spi_flash_node_name = ClonePath
        /\ patched /\ ~cleaned
             => clone_removals = 0 /\ (created <=> HasNode(fdt, ClonePath))
        /\ cleaned
             => /\ clone_removals = (IF created THEN 1 ELSE 0)
                /\ ~HasNode(fdt, ClonePath)
                /\ \A y \in fdt.props : y[1] # ClonePath

C5_Witness ==
    /\ pc = "done"
    /\ qspi_clone_spi_flash_node_name = ClonePath
    /\ clone_removals = 1
    /\ ~HasNode(fdt, ClonePath)
    /\ \A p \in DOMAIN task_pc : task_pc[p] = "done"

\* the MDIO tasks
MdioTasks == {p \in DOMAIN task_pc : <<p, "compatible", "mdio">> \in fdt.props}

Registered(p) == \E x \in opaque : x[1] = p

\* C6: an MDIO task whose parent path is not registered stays suspended in
\* the queue; it passes the wait and links the parent's instance only in a
\* step taken from a state where the parent path is registered, so the
\* registration precedes the resumption; a task that finds the path
\* registered when it starts completes without ever suspending.
C6_RegisterThenWake ==
    [][\A p \in MdioTasks :
         LET parent == SubSeq(p, 1, Len(p) - 1)
         IN  /\ (task_pc[p] # "done" /\ task_pc'[p] = "done")
                  => /\ Registered(parent)
                     /\ \E x \in opaque : /\ x[1] = parent
                                          /\ <<x[2], "mdio", "mdio">> \in links'
                                          /\ <<x[2], "mdio_child", "mdio">> \in links'
             /\ (task_pc[p] = "waiting" /\ ~Registered(parent))
                  => /\ task_pc'[p] = "waiting"
                     /\ \E i \in 1..Len(cq') : cq'[i] = p
             /\ (task_pc[p] = "unstarted" /\ task_pc'[p] # "unstarted"
                   /\ Registered(parent))
                  => task_pc'[p] = "done" /\ p \notin yielded'
             /\ (task_pc[p] = "unstarted" /\ task_pc'[p] # "unstarted"
                   /\ ~Registered(parent))
                  => /\ task_pc'[p] = "waiting"
                     /\ p \in yielded'
                     /\ \E i \in 1..Len(cq') : cq'[i] = p]_vars

C6_Witness ==
    /\ pc = "builder"
    /\ \E p \in MdioTasks :
         /\ p \in yielded
         /\ task_pc[p] = "done"
         /\ Registered(SubSeq(p, 1, Len(p) - 1))
         /\ stalled = 0
         /\ SubSeq(p, 1, Len(p) - 1) \in yielded

\* C7: the Builder pass terminates: it does not go on resuming tasks after
\* a full drain of the queue has brought no progress (it ends in a fatal
\* configuration error instead), and when it ends without error every task
\* has completed.
C7_BuilderTerminates ==
    /\ (pc = "builder" /\ err = "" => stalled <= Len(cq))
    /\ (pc \in {"map_late", "reconcile"} \cup AfterReconcile /\ err = ""
          => \A p \in DOMAIN task_pc : task_pc[p] = "done")
\* the windows of the two address maps overlap (a size s < 0 stands for
\* 2^64 + s and reaches past every address)
C8_Overlap(w1, w2) ==
    /\ w1.size # 0
    /\ w2.size # 0
    /\ (w1.size < 0 \/ w2.base < w1.base + w1.size)
    /\ (w2.size < 0 \/ w1.base < w2.base + w2.size)

C8_Disjoint ==
    \A map \in {sysmap, memmap} :
       \A w1, w2 \in map : w1.owner # w2.owner => ~C8_Overlap(w1, w2)

\* C8: the windows mapped for distinct owners are pairwise disjoint in every
\* state; a request to map a synthesized high or low RAM region, or a
\* described region mapped late on the Zynq-7000 path, whose window overlaps
\* a mapped window of another owner ends in the fatal OverlappingMapping
\* error, and a step that ends in that error leaves both address maps as
\* they were.
C8_NoOverlappingMapping ==
    /\ []C8_Disjoint
    /\ [][/\ (err = "" /\ err' = "OverlappingMapping")
               => sysmap' = sysmap /\ memmap' = memmap
          /\ (pc = "map_high" /\ err = ""
                /\ \E w \in memmap :
                     C8_Overlap(w, [owner |-> <<"ddr-ram-high">>,
                                    base |-> XLNX_ZYNQMP_HIGH_RAM_START,
                                    size |-> ddr_high_size]))
               => err' = "OverlappingMapping"
          /\ (pc = "map_low" /\ err = ""
                /\ \E w \in memmap :
                     C8_Overlap(w, [owner |-> <<"ddr-ram-low">>,
                                    base |-> memory_max, size |-> ddr_low_size]))
               => err' = "OverlappingMapping"
          /\ (pc = "map_late" /\ err = "" /\ sysmap' # sysmap)
               => \E r \in mem_objs :
                     /\ sysmap' = sysmap \cup {[owner |-> r.path,
                                                base |-> r.addr * WordsPerUnit,
                                                size |-> r.size * WordsPerUnit]}
                     /\ \A w \in sysmap :
                          ~C8_Overlap(w, [owner |-> r.path,
                                          base |-> r.addr * WordsPerUnit,
                                          size |-> r.size * WordsPerUnit])]_vars

C8_Witness ==
    /\ pc = "map_late"
    /\ err = "OverlappingMapping"
    /\ cfg.ddr = "ocm"
    /\ ~\E w \in sysmap : w.owner = Ddr0Path
    /\ \E w \in sysmap : w.owner = <<"zynq.ocm_ram">>

\* wfi; b <wfi> in the byte order of the little-endian target
TargetSpinLoop == <<3, 240, 32, 227, 253, 255, 255, 234>>

\* C9: every blob the secondary-boot writer places, the first and any later
\* one, lies at 0xfffffff0, is the two-instruction spin loop in the target's
\* byte order, and its 8 bytes overlap no mapped window and not the boot
\* register address.
C9_SameBlobNoOverlap ==
    \A i \in 1..Len(rom) :
       /\ rom[i].addr = SMP_BOOT_ADDR
       /\ rom[i].bytes = TargetSpinLoop
       /\ \A w \in sysmap :
            ~(w.base < rom[i].addr + rom[i].words /\ rom[i].addr < w.base + w.size)
       /\ ~(rom[i].addr <= SMP_BOOTREG_ADDR
              /\ SMP_BOOTREG_ADDR < rom[i].addr + rom[i].words)

\* C10: a second run of the patch phase on the patched tree leaves the tree
\* as the first run left it, raises no error, and writes nothing, each rule
\* finding itself applied already.
C10_PatchIdempotent ==
    (pc = "create_machine" /\ err = "")
    => LET again == PatchPhase(fdt, Zynq7000(machine_name), machine_ram_size)
       IN  /\ ~again.err
           /\ again.fdt.nodes = fdt.nodes
           /\ again.fdt.props = fdt.props
           /\ again.fdt.writes = fdt.writes
\* C11: every RAM region the reconciler initializes (ddr-ram-high,
\* ddr-ram-low) and every window it adds to the main memory container has a
\* size other than 0, that is, greater than 0 as the unsigned value it is;
\* once the reconciler is done, a low size computed as 0 has left neither
\* an initialized low region nor a low window, and a requested size not
\* above the low-memory ceiling has left neither a high region nor a high
\* window.
C11_NoZeroSizedRegion ==
    /\ \A r \in ram_regions : r.size # 0
    /\ \A w \in LowWindows \cup HighWindows : w.size # 0
    /\ (pc \in AfterReconcile /\ Generic /\ ULess(memory_max, machine_ram_size)
          /\ ddr_low_size = 0)
       => /\ LowWindows = {}
          /\ ~\E r \in ram_regions : r.name = "ddr-ram-low"
    /\ (pc \in AfterReconcile /\ Generic
          /\ ~ULess(XLNX_ZYNQMP_MAX_LOW_RAM_SIZE, machine_ram_size))
       => /\ HighWindows = {}
          /\ ~\E r \in ram_regions : r.name = "ddr-ram-high"

C11_Witness ==
    /\ pc \in AfterReconcile
    /\ Generic
    /\ ULess(memory_max, machine_ram_size)
    /\ ddr_low_size = 0
    /\ memory_max = XLNX_ZYNQMP_MAX_LOW_RAM_SIZE
    /\ ram_regions = {[name |-> "ddr-ram-high",
                       size |-> machine_ram_size - XLNX_ZYNQMP_MAX_LOW_RAM_SIZE]}
    /\ LowWindows = {}
    /\ HighWindows # {}
\* the described regions the claim counts: top-level nodes whose container is
\* the main memory node
C12_Counted ==
    {r \in mem_objs : Len(r.path) = 1 /\ r.container # 0
                        /\ r.container = GetPhandle(fdt, node_path)}

RECURSIVE C12_SumSizes(_)
C12_SumSizes(rs) ==
    IF rs = {} THEN 0
    ELSE LET r == CHOOSE x \in rs : TRUE
         IN  r.size + C12_SumSizes(rs \ {r})

\* C12: the described amount the reconciler uses, memory_max, is the sum of
\* the sizes of the described memory regions that are top-level nodes and
\* have the main memory node as container; regions at another depth or in
\* another container add nothing to it.
C12_DescribedIsSum ==
    (Generic /\ pc \in AfterReconcile) => memory_max = C12_SumSizes(C12_Counted)
\* no instance is registered under two node paths
C13_OneToOne == \A x, y \in opaque : x[2] = y[2] => x[1] = y[1]

\* C13: registration is write-once and one-to-one: in every state each
\* registered instance is registered under one node path only, and while the
\* Builder runs no step replaces or removes the registration of a path, so
\* each path is registered at most once.
C13_RegistrationWriteOnce ==
    /\ []C13_OneToOne
    /\ [][pc = "builder" => \A x \in opaque : x \in opaque']_vars
\* the <<path, property>> pairs whose value differs between two trees
C14_Changed(t1, t2) ==
    {<<y[1], y[2]>> : y \in (t1.props \ t2.props) \cup (t2.props \ t1.props)}

\* the node paths of a tree
C14_Nodes(t) == {t.nodes[i] : i \in 1..Len(t.nodes)}

\* the controller is there but the clone rule has nothing to clone
C14_NoQspi == QspiPath \notin C14_Nodes(fdt)
C14_NoChild ==
    /\ ~C14_NoQspi
    /\ ~\E n \in C14_Nodes(fdt) : Len(n) = Len(QspiPath) + 1 /\ IsPrefix(QspiPath, n)
C14_NotDual ==
    /\ ~C14_NoQspi
    /\ FlashPath \in C14_Nodes(fdt)
    /\ <<QspiPath, "is-dual", 1>> \notin fdt.props
C14_NoGic == GicPath \notin C14_Nodes(fdt)
C14_NoUsb == UsbPath \notin C14_Nodes(fdt)
C14_NoA9 == ~\E y \in fdt.props : y[2] = "compatible" /\ y[3] = "arm,cortex-a9"

\* the part of the claim that is the same in its first and its amended form:
\* the patch step of a Zynq-7000 machine and the USB step, by target
C14_Skips ==
    /\ (pc = "patch" /\ err = "" /\ Zynq7000(machine_name))
       => /\ (C14_NoQspi \/ C14_NoChild \/ C14_NotDual)
             => /\ qspi_clone_spi_flash_node_name' = NULL
                /\ \A n \in C14_Nodes(fdt') \ C14_Nodes(fdt) : n = MemoryPath
                /\ err' = ""
          /\ C14_NoQspi
             => \A c \in C14_Changed(fdt, fdt') : ~IsPrefix(QspiPath, c[1])
          /\ C14_NoGic
             => \A c \in C14_Changed(fdt, fdt') : c[2] # "disable-linux-gic-init"
          /\ C14_NoA9
             => \A c \in C14_Changed(fdt, fdt') : c[2] # "reset-cbar"
          /\ (C14_NoQspi /\ C14_NoGic /\ C14_NoA9)
             => \A c \in C14_Changed(fdt, fdt') : c[1] = MemoryPath
          /\ C14_Nodes(fdt) \subseteq C14_Nodes(fdt')
    /\ (pc = "usb" /\ err = "" /\ C14_NoUsb) => fdt' = fdt /\ err' = ""

\* C14 as stated: a quirk whose target is absent is skipped without error and
\* changes nothing; without a QSPI controller, or with a controller that has
\* no child or is not dual, no node is cloned, the clone name is null and no
\* property of the controller's subtree changes; without an
\* interrupt-controller, USB or Cortex-A9 node no marker, dr_mode or
\* reset-cbar is written; nothing else in the tree changes.
C14_AbsentTargetSkipped ==
    [][/\ C14_Skips
       /\ (pc = "patch" /\ err = "" /\ Zynq7000(machine_name)
             /\ (C14_NoChild \/ C14_NotDual))
          => \A c \in C14_Changed(fdt, fdt') : ~IsPrefix(QspiPath, c[1])]_vars

\* C14, amended: as above, but a controller that is present has its
\* #bus-cells set to 1 and its first child's reg set to <0 0> although
\* nothing is cloned: with no child only #bus-cells of the controller
\* changes in its subtree, with a child and not dual only #bus-cells and the
\* child's reg.
C14_AbsentTargetSkippedButBusCells ==
    [][/\ C14_Skips
       /\ (pc = "patch" /\ err = "" /\ Zynq7000(machine_name) /\ C14_NoChild)
          => /\ \A c \in C14_Changed(fdt, fdt') :
                  IsPrefix(QspiPath, c[1]) => c = <<QspiPath, "#bus-cells">>
             /\ <<QspiPath, "#bus-cells", <<1>>>> \in fdt'.props
       /\ (pc = "patch" /\ err = "" /\ Zynq7000(machine_name) /\ C14_NotDual)
          => /\ \A c \in C14_Changed(fdt, fdt') :
                  IsPrefix(QspiPath, c[1])
                  => c \in {<<QspiPath, "#bus-cells">>, <<FlashPath, "reg">>}
             /\ <<QspiPath, "#bus-cells", <<1>>>> \in fdt'.props
             /\ <<FlashPath, "reg", <<0, 0>>>> \in fdt'.props]_vars

C14_Witness ==
    /\ pc = "load_kernel"
    /\ err = ""
    /\ Zynq7000(machine_name)
    /\ cfg.qspi = "dual_nochild"
    /\ ~cfg.gic
    /\ ~cfg.usb
    /\ cfg.cpus = "none"
    /\ qspi_clone_spi_flash_node_name = NULL
    /\ C14_Changed(MakeTree(cfg), fdt) \subseteq
         {<<QspiPath, "#bus-cells">>, <<MemoryPath, "reg">>,
          <<MemoryPath, "compatible">>, <<MemoryPath, "qemu,ram">>}
    /\ <<QspiPath, "#bus-cells">> \in C14_Changed(MakeTree(cfg), fdt)
====
